---- MODULE Spec2Model ----
(***************************************************************************)
(* SpecPlane experiment tooling.                                           *)
(*                                                                         *)
(* Part 1: the manual session tracker (tools_and_templates/                *)
(* simple_tracker.py): one live state file experiment_status.json, one     *)
(* result file results.json, and the commands start / pause / resume /     *)
(* end / status.                                                           *)
(*                                                                         *)
(* Part 2: the run log aggregator (building_specplane/                     *)
(* experiment_support_files/specplane_measurement_tracking_system.py):     *)
(* MetricsCollector appends one JSON line per run to experiment_runs.jsonl *)
(* and rewrites aggregated_metrics.json from the whole log;                *)
(* track_experiment wraps a run; MetricsAnalyzer reads both files.         *)
(* ExperimentRun is imported from specplane.models; it is taken to be the  *)
(* record the contracts header declares, which dataclasses.asdict accepts. *)
(* Rates and averages are kept as exact quotients; the improvement trend,  *)
(* whose answer depends on float rounding, is computed on binary64 floats. *)
(*                                                                         *)
(* Specifications: Spec and SpecSkew (tracker), SpecAgg (collector,        *)
(* track_experiment and analyzer from the first run on), SpecReport        *)
(* (recompute and compare_report on every short log), SpecTrend            *)
(* (trends_for on long logs), SpecGates (the quality gates within a run).  *)
(*                                                                         *)
(* Time.  A timestamp is an integer number of 2-second units (1/30 of a    *)
(* minute); a duration in minutes that the code rounds with round(x, 1) is *)
(* an integer number of tenths of a minute.  With 1/30-minute inputs       *)
(* round(x, 1) never meets a tie, so it is "nearest tenth".  Sums of       *)
(* tenths are exact here; the code adds them as binary floats.             *)
(***************************************************************************)
EXTENDS Integers, Sequences, FiniteSets, TLC

\* ------------------------------------------------------------------ bounds
\* Largest wall-clock reading, in 2-second units.
MaxTime == 4
\* Most resumes recorded in one session's pause_history.
MaxPauses == 2

\* Most times the wall clock is set back (clock skew) in one run.
MaxSetBacks == 1

\* Most runs started with track_experiment.
MaxRuns == 2
\* Most rework cycles recorded in one run.
MaxRework == 1

\* Experiment names given to `start`.
ExpNames == {"A"}

VARIABLES
    now,            \* the wall clock: the last value datetime.now() returned
    status_file,    \* experiment_status.json: <<>> when absent, else <<data>>
    results_file,   \* results.json:           <<>> when absent, else <<data>>
    last,           \* the command last run and the message it printed
    setbacks,       \* how many times the wall clock has been set back
    runs_file,      \* experiment_runs.jsonl: <<>> absent, else <<lines>>
    metrics_file,   \* aggregated_metrics.json: <<>> absent, else <<snapshot>>
    run,            \* the ExperimentRun of the open track_experiment block
    pc,             \* "idle", or "body" inside a track_experiment block
    next_id,        \* the ordinal of the next run started (its id and time)
    result          \* what the last aggregator operation returned or raised

tracker_vars == <<now, status_file, results_file, last, setbacks>>
agg_vars == <<runs_file, metrics_file, run, pc, next_id, result>>
vars == <<now, status_file, results_file, last, setbacks,
          runs_file, metrics_file, run, pc, next_id, result>>

\* ------------------------------------------------------------ pure helpers
\* os.path.exists(path)
exists(file) == Len(file) > 0

\* json.load(f) of a file that exists
load(file) == file[1]

\* json.dump(data, f) with mode "w": the file holds exactly `data`
dump(data) == <<data>>

\* "key" in data
has_key(data, key) == key \in DOMAIN data

\* data[key] = value, adding the key when it is not there
set_key(data, key, value) ==
    [k \in DOMAIN data \cup {key} |-> IF k = key THEN value ELSE data[k]]

\* data.pop(key, None)
pop_key(data, key) == [k \in DOMAIN data \ {key} |-> data[k]]

\* round(units / 30, 1), in tenths of a minute: the nearest tenth of a
\* duration given in 1/30-minute units (negative durations included).
round1(units) == (units + 1) \div 3

\* (b - a).total_seconds() / 60, kept in 1/30-minute units
minutes_between(a, b) == b - a

\* sum of duration_minutes over a pause_history
RECURSIVE sum_durations(_)
sum_durations(h) ==
    IF h = <<>> THEN 0 ELSE h[1].duration_minutes + sum_durations(Tail(h))

\* ---------------------------------------------------------------- clock
\* One call of datetime.now() on a clock that last read `from` and has not
\* been set back since.
Readings(from) == from..MaxTime

\* ------------------------------------------------------------- the commands
\* start_experiment(exp_name): writes a fresh state, whatever was there.
start_data(exp_name, t) ==
    [experiment |-> exp_name,
     start_time |-> t,
     status |-> "in_progress",
     paused_time_minutes |-> 0,
     pause_history |-> <<>>]

start_experiment(exp_name, t) ==
    /\ now' = t
    /\ status_file' = dump(start_data(exp_name, t))
    /\ last' = [op |-> "start", msg |-> "started"]
    /\ UNCHANGED results_file

\* pause_experiment()
pause_data(data, t) ==
    set_key([data EXCEPT !.status = "paused"], "pause_start", t)

\* (mutant) pause without the "already paused" check: it stamps again
pause_experiment_restamps(t) ==
    IF ~exists(status_file)
    THEN /\ last' = [op |-> "pause", msg |-> "no_active_experiment"]
         /\ UNCHANGED <<now, status_file, results_file>>
    ELSE /\ now' = t
         /\ status_file' = dump(pause_data(load(status_file), t))
         /\ last' = [op |-> "pause", msg |-> "paused"]
         /\ UNCHANGED results_file

pause_experiment(t) ==
    IF ~exists(status_file)
    THEN /\ last' = [op |-> "pause", msg |-> "no_active_experiment"]
         /\ UNCHANGED <<now, status_file, results_file>>
    ELSE IF load(status_file).status = "paused"
    THEN /\ last' = [op |-> "pause", msg |-> "already_paused"]
         /\ UNCHANGED <<now, status_file, results_file>>
    ELSE /\ now' = t
         /\ status_file' = dump(pause_data(load(status_file), t))
         /\ last' = [op |-> "pause", msg |-> "paused"]
         /\ UNCHANGED results_file

\* resume_experiment(): the record appended to pause_history
pause_record(data, t) ==
    [pause_start |-> data.pause_start,
     pause_end |-> t,
     duration_minutes |-> round1(minutes_between(data.pause_start, t))]

\* (mutant) resume that forgets data.pop("pause_start", None)
resume_data_keeps_pause_start(data, t) ==
    [data EXCEPT
        !.pause_history = Append(@, pause_record(data, t)),
        !.paused_time_minutes =
            @ + round1(minutes_between(data.pause_start, t)),
        !.status = "in_progress"]

\* (mutant) resume that adds the unrounded duration to the total
resume_data_adds_unrounded(data, t) ==
    pop_key([data EXCEPT
                !.pause_history = Append(@, pause_record(data, t)),
                !.paused_time_minutes =
                    @ + minutes_between(data.pause_start, t),
                !.status = "in_progress"],
            "pause_start")

\* resume_experiment(): the state written back
resume_data(data, t) ==
    pop_key([data EXCEPT
                !.pause_history = Append(@, pause_record(data, t)),
                !.paused_time_minutes =
                    @ + round1(minutes_between(data.pause_start, t)),
                !.status = "in_progress"],
            "pause_start")

\* resume_experiment(): which branch it takes on the file as it is
resume_msg(file) ==
    IF ~exists(file) THEN "no_active_experiment"
    ELSE IF load(file).status # "paused" THEN "not_paused"
    ELSE IF ~has_key(load(file), "pause_start") THEN "no_pause_start"
    ELSE "resumed"

\* resume_experiment(): the live state file after the call
resume_file(file, t) ==
    IF resume_msg(file) = "resumed" THEN dump(resume_data(load(file), t))
    ELSE file

resume_experiment(t) ==
    /\ last' = [op |-> "resume", msg |-> resume_msg(status_file)]
    /\ status_file' = resume_file(status_file, t)
    /\ now' = IF resume_msg(status_file) = "resumed" THEN t ELSE now
    /\ UNCHANGED results_file

\* end_experiment(success): the finalized record, from the (reloaded) state
end_data(data, success, t) ==
    LET total_duration == minutes_between(data.start_time, t)
        \* total_duration - paused_time_minutes, in 1/30-minute units
        active_duration == total_duration - 3 * data.paused_time_minutes
        d1 == set_key(data, "end_time", t)
        d2 == [d1 EXCEPT !.status = IF success THEN "completed" ELSE "failed"]
        d3 == set_key(d2, "total_duration_minutes", round1(total_duration))
    IN  set_key(d3, "active_duration_minutes", round1(active_duration))

\* (mutant) end that leaves the live state file in place
end_experiment_keeps_state(success, t1, t2) ==
    IF ~exists(status_file)
    THEN /\ last' = [op |-> "end", msg |-> "no_active_experiment"]
         /\ UNCHANGED <<now, status_file, results_file>>
    ELSE /\ last' = [op |-> "end", msg |-> "ended"]
         /\ now' = t2
         /\ status_file' = status_file
         /\ results_file' =
                dump([load(status_file) EXCEPT
                        !.status = IF success THEN "completed" ELSE "failed"])

\* (mutant) end that finalizes the state it loaded before resuming
end_reloaded_stale(file, t1) == load(file)

\* end_experiment(success): the state it finalizes. A paused session is
\* resumed first (resume_experiment() at clock reading t1) and reloaded.
end_reloaded(file, t1) ==
    IF load(file).status = "paused" THEN load(resume_file(file, t1))
    ELSE load(file)

end_experiment(success, t1, t2) ==
    IF ~exists(status_file)
    THEN /\ last' = [op |-> "end", msg |-> "no_active_experiment"]
         /\ UNCHANGED <<now, status_file, results_file>>
    ELSE /\ last' = [op |-> "end", msg |-> "ended"]
         /\ now' = t2
         /\ status_file' = <<>>
         /\ results_file' =
                dump(end_data(end_reloaded(status_file, t1), success, t2))

\* show_status(): reads and prints only
show_status ==
    /\ last' = [op |-> "status",
                msg |-> IF exists(status_file) THEN "shown"
                        ELSE "no_active_experiment"]
    /\ UNCHANGED <<now, status_file, results_file>>

\* ------------------------------------------------------------ specification
\* The history stays within MaxPauses entries.
CanPause == exists(status_file) =>
                Len(load(status_file).pause_history) < MaxPauses

Init ==
    /\ now = 0
    /\ status_file = <<>>
    /\ results_file = <<>>
    /\ last = [op |-> "none", msg |-> "none"]
    /\ setbacks = 0
    /\ runs_file = <<>>
    /\ metrics_file = <<>>
    /\ run = <<>>
    /\ pc = "idle"
    /\ next_id = 1
    /\ result = [op |-> "none", outcome |-> "none"]

Start ==
    /\ \E n \in ExpNames, t \in Readings(now) : start_experiment(n, t)
    /\ UNCHANGED <<setbacks, agg_vars>>

Pause ==
    /\ CanPause
    /\ \E t \in Readings(now) : pause_experiment(t)
    /\ UNCHANGED <<setbacks, agg_vars>>

Resume ==
    /\ \E t \in Readings(now) : resume_experiment(t)
    /\ UNCHANGED <<setbacks, agg_vars>>

\* end reads the clock once, or twice when it resumes a paused session.
End ==
    /\ \E s \in BOOLEAN, t1 \in Readings(now) : \E t2 \in Readings(t1) :
          /\ (exists(status_file) /\ load(status_file).status = "paused")
                \/ t1 = t2
          /\ end_experiment(s, t1, t2)
    /\ UNCHANGED <<setbacks, agg_vars>>

Status == show_status /\ UNCHANGED <<setbacks, agg_vars>>

\* The environment sets the wall clock back (NTP step, manual change) while
\* a session is paused.
ClockSetBack ==
    /\ setbacks < MaxSetBacks
    /\ exists(status_file)
    /\ has_key(load(status_file), "pause_start")
    /\ setbacks' = setbacks + 1
    /\ \E t \in 0..(now - 1) : now' = t
    /\ UNCHANGED <<status_file, results_file, last, agg_vars>>

Next == Start \/ Pause \/ Resume \/ End \/ Status

NextSkew == Next \/ ClockSetBack

\* The tracker on a clock that never goes backwards.
Spec == Init /\ [][Next]_vars

\* The tracker on a clock that may be set back.
SpecSkew == Init /\ [][NextSkew]_vars
\* ===================================================================
\* Part 2: the run log aggregator
\* ===================================================================
\* ExperimentType values and component names given to track_experiment.
ExperimentTypes == {"component_kernel", "spec_only"}
Components == {"File_Storage"}
\* Minutes record_time_to_green may measure for a passing test run.
TimesToGreen == {5}

\* Optional[...]: None, or a value
None == <<>>
Some(v) == <<v>>

RECURSIVE GCD(_, _)
GCD(a, b) == IF b = 0 THEN a ELSE GCD(b, a % b)

\* The quotient n / d (d > 0) of a Python true division, in lowest terms.
Frac(n, d) == LET g == GCD(n, d) IN [n |-> n \div g, d |-> d \div g]

\* sum(xs) of a list of integers
RECURSIVE seq_sum(_)
seq_sum(xs) == IF xs = <<>> THEN 0 ELSE Head(xs) + seq_sum(Tail(xs))

\* [f(x) for x in xs]
RECURSIVE seq_map(_, _)
seq_map(f(_), xs) ==
    IF xs = <<>> THEN <<>> ELSE <<f(Head(xs))>> \o seq_map(f, Tail(xs))

\* `if x` on an Optional number: None and 0 are both false
truthy(opt) == opt # None /\ opt[1] # 0

\* ExperimentRun(id=..., experiment_type=..., component_name=...,
\* start_time=datetime.now()) with the declared defaults. The k-th run
\* started has id k and start time k. final_quality_score counts fifths.
ExperimentRun(id, experiment_type, component_name) ==
    [id |-> id,
     experiment_type |-> experiment_type,
     component_name |-> component_name,
     start_time |-> id,
     end_time |-> None,
     time_to_green |-> None,
     rework_cycles |-> 0,
     spec_drift_count |-> 0,
     editor_friction_count |-> 0,
     success |-> FALSE,
     final_quality_score |-> None,
     artifacts_generated |-> <<>>,
     issues_encountered |-> <<>>]

\* json.dumps(run_dict) + '\n': one well-formed line of the log
json_dumps(run_dict) == [json |-> TRUE, value |-> run_dict]

\* A line json.loads raises JSONDecodeError on (blank, truncated, edited).
GarbageLine == [json |-> FALSE, value |-> [text |-> "garbage"]]

\* json.loads(line) succeeds
json_ok(line) == line.json

\* json.loads(line) of a well-formed line
json_loads(line) == line.value

\* The lines of a log file; none when the file is absent
file_lines(file) == IF exists(file) THEN load(file) ELSE <<>>

\* MetricsCollector._save_run: open(runs_file, 'a') and write one line
save_run(rf, r) == dump(file_lines(rf) \o <<json_dumps(r)>>)

\* The keys of metrics_by_type, in insertion (first occurrence) order
RECURSIVE group_keys(_, _)
group_keys(runs, seen) ==
    IF runs = <<>> THEN <<>>
    ELSE IF Head(runs).experiment_type \in seen
         THEN group_keys(Tail(runs), seen)
         ELSE <<Head(runs).experiment_type>>
                \o group_keys(Tail(runs),
                              seen \cup {Head(runs).experiment_type})

get_time_to_green(r) == r.time_to_green[1]
get_rework_cycles(r) == r.rework_cycles
get_quality_score(r) == r.final_quality_score[1]
has_time_to_green(r) == truthy(r.time_to_green)
has_quality_score(r) == truthy(r.final_quality_score)
is_success(r) == r.success

\* aggregated[exp_type] for the runs of one type
aggregate_type(type_runs) ==
    LET total_runs == Len(type_runs)
        successful_runs == SelectSeq(type_runs, is_success)
        times_to_green ==
            seq_map(get_time_to_green,
                    SelectSeq(successful_runs, has_time_to_green))
        rework_cycles == seq_map(get_rework_cycles, type_runs)
        quality_scores ==
            seq_map(get_quality_score,
                    SelectSeq(successful_runs, has_quality_score))
    IN  [total_runs |-> total_runs,
         success_rate |->
            IF total_runs > 0 THEN Frac(Len(successful_runs), total_runs)
            ELSE Frac(0, 1),
         avg_time_to_green |->
            IF times_to_green # <<>>
            THEN Some(Frac(seq_sum(times_to_green), Len(times_to_green)))
            ELSE None,
         avg_rework_cycles |->
            IF rework_cycles # <<>>
            THEN Frac(seq_sum(rework_cycles), Len(rework_cycles))
            ELSE Frac(0, 1),
         avg_quality_score |->
            IF quality_scores # <<>>
            THEN Some(Frac(seq_sum(quality_scores), 5 * Len(quality_scores)))
            ELSE None]

\* The `aggregated` dict as its items in insertion order
RECURSIVE aggregate_keys(_, _)
aggregate_keys(keys, runs) ==
    IF keys = <<>> THEN <<>>
    ELSE <<[key |-> Head(keys),
            data |-> aggregate_type(
                SelectSeq(runs,
                          LAMBDA r : r.experiment_type = Head(keys)))]>>
         \o aggregate_keys(Tail(keys), runs)

\* (mutant) only the record appended last is aggregated
aggregate_latest(runs) ==
    IF runs = <<>> THEN <<>>
    ELSE aggregate_keys(<<runs[Len(runs)].experiment_type>>,
                        <<runs[Len(runs)]>>)

aggregate(runs) == aggregate_keys(group_keys(runs, {}), runs)

\* (mutant) an incremental update: the new aggregate is added to the items
\* the snapshot file already holds.
update_aggregated_metrics_incremental(rf, mf) ==
    IF ~exists(rf) THEN [raised |-> FALSE, metrics |-> mf]
    ELSE IF \E i \in 1..Len(load(rf)) : ~json_ok(load(rf)[i])
    THEN [raised |-> TRUE, metrics |-> mf]
    ELSE [raised |-> FALSE,
          metrics |-> dump(file_lines(mf)
                           \o aggregate(seq_map(json_loads, load(rf))))]

\* MetricsCollector._update_aggregated_metrics on log rf and snapshot mf:
\* the snapshot file afterwards, and whether the call raised.
update_aggregated_metrics(rf, mf) ==
    IF ~exists(rf) THEN [raised |-> FALSE, metrics |-> mf]
    ELSE IF \E i \in 1..Len(load(rf)) : ~json_ok(load(rf)[i])
    THEN [raised |-> TRUE, metrics |-> mf]
    ELSE [raised |-> FALSE,
          metrics |-> dump(aggregate(seq_map(json_loads, load(rf))))]

\* MetricsCollector.end_experiment(run, success): the run as saved, both
\* files afterwards, and whether the call raised.
collector_end_experiment(rf, mf, r, success) ==
    LET ended == [r EXCEPT !.end_time = Some(r.start_time),
                           !.success = success,
                           !.artifacts_generated = <<>>]
        saved == save_run(rf, ended)
        updated == update_aggregated_metrics(saved, mf)
    IN  [run |-> ended, runs |-> saved,
         metrics |-> updated.metrics, raised |-> updated.raised]

\* track_experiment, the except branch: note the exception, end the run as
\* failed, re-raise.
track_except(rf, mf, r) ==
    collector_end_experiment(
        rf, mf,
        [r EXCEPT !.issues_encountered = Append(@, "Exception")],
        FALSE)

\* track_experiment entry: collector.start_experiment(...)
track_enter(experiment_type, component_name) ==
    /\ pc = "idle"
    /\ next_id <= MaxRuns
    /\ run' = <<ExperimentRun(next_id, experiment_type, component_name)>>
    /\ next_id' = next_id + 1
    /\ pc' = "body"
    /\ result' = [op |-> "start_experiment", outcome |-> "ok"]
    /\ UNCHANGED <<runs_file, metrics_file>>

\* record_time_to_green(run): the tests pass after `elapsed` minutes
record_time_to_green_pass(elapsed) ==
    /\ pc = "body"
    /\ run' = <<[run[1] EXCEPT !.time_to_green = Some(elapsed)]>>
    /\ result' = [op |-> "record_time_to_green", outcome |-> "passed"]
    /\ UNCHANGED <<runs_file, metrics_file, pc, next_id>>

\* record_time_to_green(run): the tests fail, time out or cannot be run
record_time_to_green_fail ==
    /\ pc = "body"
    /\ result' = [op |-> "record_time_to_green", outcome |-> "none"]
    /\ UNCHANGED <<runs_file, metrics_file, run, pc, next_id>>

\* ---- quality gates ----
\* QualityGate.timeout_seconds when none is given
DefaultTimeoutSeconds == 30

\* QualityGate(name=..., command=..., success_criteria=...)
QualityGate(name, command) ==
    [name |-> name, command |-> command,
     timeout_seconds |-> DefaultTimeoutSeconds]

STANDARD_QUALITY_GATES ==
    <<QualityGate("type_checking", "mypy specplane/ --strict"),
      QualityGate("unit_tests", "pytest tests/ -v"),
      QualityGate("code_style", "black --check specplane/ tests/"),
      QualityGate("import_sorting", "isort --check-only specplane/ tests/"),
      QualityGate("cli_smoke_test", "python -m specplane --help")>>

\* What the process of a command may do: fail to start (the program is
\* missing), exit with status 0 or 1 after 10 seconds, or run for 40
\* seconds before it exits with status 0.
ProcessBehaviours ==
    {[starts |-> FALSE, returncode |-> 1, seconds |-> 0],
     [starts |-> TRUE, returncode |-> 0, seconds |-> 10],
     [starts |-> TRUE, returncode |-> 1, seconds |-> 10],
     [starts |-> TRUE, returncode |-> 0, seconds |-> 40]}

\* subprocess.run(command.split(), ..., timeout=timeout) of a process that
\* behaves as `proc`: what it raises, and the return code if it returns.
subprocess_run(command, timeout, proc) ==
    IF ~proc.starts
    THEN [raised |-> "Exception", returncode |-> proc.returncode]
    ELSE IF proc.seconds > timeout
    THEN [raised |-> "TimeoutExpired", returncode |-> proc.returncode]
    ELSE [raised |-> "none", returncode |-> proc.returncode]

\* d[key] = value on a dict kept as its items in insertion order
dict_set(items, key, value) ==
    IF \E i \in 1..Len(items) : items[i].key = key
    THEN [i \in 1..Len(items) |->
            IF items[i].key = key THEN [key |-> key, passed |-> value]
            ELSE items[i]]
    ELSE Append(items, [key |-> key, passed |-> value])

\* (mutant) the loop ends at the first gate that does not pass
RECURSIVE run_gates_until_failure(_, _, _)
run_gates_until_failure(gates, procs, acc) ==
    IF gates = <<>> THEN acc
    ELSE
      LET gate == Head(gates)
          r == subprocess_run(gate.command, gate.timeout_seconds, Head(procs))
          done == [gate_results |->
                      dict_set(acc.gate_results, gate.name,
                               r.raised = "none" /\ r.returncode = 0),
                   invoked |->
                      Append(acc.invoked,
                             [command |-> gate.command,
                              timeout |-> gate.timeout_seconds,
                              process |-> Head(procs)])]
      IN  IF r.raised = "none" /\ r.returncode = 0
          THEN run_gates_until_failure(Tail(gates), Tail(procs), done)
          ELSE done

\* `for gate in STANDARD_QUALITY_GATES:` over the gates still to test, the
\* k-th process started behaving as procs[k]: gate_results, and the
\* subprocess.run calls made. Both except branches record False and go on.
RECURSIVE run_gates(_, _, _)
run_gates(gates, procs, acc) ==
    IF gates = <<>> THEN acc
    ELSE
      LET gate == Head(gates)
          r == subprocess_run(gate.command, gate.timeout_seconds, Head(procs))
          passed == IF r.raised = "none" THEN r.returncode = 0 ELSE FALSE
      IN  run_gates(Tail(gates), Tail(procs),
                    [gate_results |->
                        dict_set(acc.gate_results, gate.name, passed),
                     invoked |->
                        Append(acc.invoked,
                               [command |-> gate.command,
                                timeout |-> gate.timeout_seconds,
                                process |-> Head(procs)])])

\* record_quality_gates(run), the processes behaving as `procs`
record_quality_gates(procs) ==
    /\ pc = "body"
    /\ LET done == run_gates(STANDARD_QUALITY_GATES, procs,
                             [gate_results |-> <<>>, invoked |-> <<>>])
           failed_gates ==
               Len(SelectSeq(done.gate_results, LAMBDA e : ~e.passed))
       IN  /\ run' = <<[run[1] EXCEPT !.spec_drift_count = failed_gates]>>
           /\ result' = [op |-> "record_quality_gates", outcome |-> "ok",
                         gate_results |-> done.gate_results,
                         invoked |-> done.invoked]
    /\ UNCHANGED <<runs_file, metrics_file, pc, next_id>>

\* record_rework_cycle(run, reason)
record_rework_cycle ==
    /\ pc = "body"
    /\ run[1].rework_cycles < MaxRework
    /\ run' = <<[run[1] EXCEPT
                    !.rework_cycles = @ + 1,
                    !.issues_encountered = Append(@, "Rework")]>>
    /\ result' = [op |-> "record_rework_cycle", outcome |-> "ok"]
    /\ UNCHANGED <<runs_file, metrics_file, pc, next_id>>

\* track_experiment: the with-block finishes normally. end_experiment
\* (success=True) runs inside the try, so an exception it raises is handled
\* by the except branch like one of the block.
track_exit_normal ==
    /\ pc = "body"
    /\ LET e1 == collector_end_experiment(runs_file, metrics_file,
                                          run[1], TRUE)
           e2 == track_except(e1.runs, e1.metrics, e1.run)
       IN  IF ~e1.raised
           THEN /\ runs_file' = e1.runs
                /\ metrics_file' = e1.metrics
                /\ result' = [op |-> "track_experiment", outcome |-> "ok"]
           ELSE /\ runs_file' = e2.runs
                /\ metrics_file' = e2.metrics
                /\ result' = [op |-> "track_experiment",
                              outcome |-> "raised"]
    /\ run' = <<>>
    /\ pc' = "idle"
    /\ UNCHANGED next_id

\* track_experiment: the with-block raises an exception
track_exit_exception ==
    /\ pc = "body"
    /\ LET e2 == track_except(runs_file, metrics_file, run[1])
       IN  /\ runs_file' = e2.runs
           /\ metrics_file' = e2.metrics
    /\ result' = [op |-> "track_experiment", outcome |-> "raised"]
    /\ run' = <<>>
    /\ pc' = "idle"
    /\ UNCHANGED next_id

\* recompute(): MetricsCollector._update_aggregated_metrics called alone
recompute ==
    /\ LET u == update_aggregated_metrics(runs_file, metrics_file)
       IN  /\ metrics_file' = u.metrics
           /\ result' = [op |-> "recompute",
                         outcome |-> IF u.raised THEN "JSONDecodeError"
                                     ELSE "ok"]
    /\ UNCHANGED <<runs_file, run, pc, next_id>>

\* a < b for two quotients
frac_less(a, b) == a.n * b.d < b.n * a.d

\* `if x` on an Optional quotient: None and 0.0 are both false
truthy_frac(opt) == opt # None /\ opt[1].n # 0

\* max(values, key=...): the index of the first item with the largest key
argmax_first(keys) ==
    CHOOSE i \in 1..Len(keys) :
        /\ \A j \in 1..Len(keys) : ~frac_less(keys[i], keys[j])
        /\ \A j \in 1..(i - 1) : frac_less(keys[j], keys[i])

\* min(values, key=...): the index of the first item with the smallest key
argmin_first(keys) ==
    CHOOSE i \in 1..Len(keys) :
        /\ \A j \in 1..Len(keys) : ~frac_less(keys[j], keys[i])
        /\ \A j \in 1..(i - 1) : frac_less(keys[i], keys[j])

\* (mutant) the last key whose entry equals `wanted`
last_key_with(metrics, wanted) ==
    metrics[CHOOSE i \in 1..Len(metrics) :
                /\ metrics[i].data = wanted
                /\ \A j \in (i + 1)..Len(metrics) :
                      metrics[j].data # wanted].key

\* next(exp for exp, data in metrics.items() if data == wanted)
first_key_with(metrics, wanted) ==
    metrics[CHOOSE i \in 1..Len(metrics) :
                /\ metrics[i].data = wanted
                /\ \A j \in 1..(i - 1) : metrics[j].data # wanted].key

get_success_rate(item) == item.data.success_rate
get_avg_rework(item) == item.data.avg_rework_cycles
get_avg_time(item) == item.data.avg_time_to_green[1]
has_avg_time(item) == truthy_frac(item.data.avg_time_to_green)

\* one row of the comparison table; None is printed as "N/A"
table_row(item) ==
    [experiment |-> item.key,
     runs |-> item.data.total_runs,
     success_rate |-> item.data.success_rate,
     time_to_green |->
        IF truthy_frac(item.data.avg_time_to_green)
        THEN item.data.avg_time_to_green ELSE None,
     rework |-> item.data.avg_rework_cycles,
     quality |->
        IF truthy_frac(item.data.avg_quality_score)
        THEN item.data.avg_quality_score ELSE None]

\* MetricsAnalyzer.generate_experiment_comparison()
generate_experiment_comparison(mf) ==
    IF ~exists(mf)
    THEN [op |-> "compare_report", outcome |-> "no_data"]
    ELSE IF load(mf) = <<>>
    THEN [op |-> "compare_report", outcome |-> "ValueError"]
    ELSE
      LET metrics == load(mf)
          best == metrics[argmax_first(
                              seq_map(get_success_rate, metrics))].data
          timed == SelectSeq(metrics, has_avg_time)
          lowest == metrics[argmin_first(
                                seq_map(get_avg_rework, metrics))].data
      IN  [op |-> "compare_report", outcome |-> "report",
           rows |-> seq_map(table_row, metrics),
           best_experiment |-> first_key_with(metrics, best),
           fastest_experiment |->
              IF timed # <<>>
              THEN Some(timed[argmin_first(seq_map(get_avg_time, timed))].key)
              ELSE None,
           lowest_rework_exp |-> first_key_with(metrics, lowest)]

\* sorted(runs, key=start_time): a stable sort
RECURSIVE insert_by_start(_, _)
insert_by_start(sorted, r) ==
    IF sorted = <<>> THEN <<r>>
    ELSE IF r.start_time < Head(sorted).start_time THEN <<r>> \o sorted
    ELSE <<Head(sorted)>> \o insert_by_start(Tail(sorted), r)

RECURSIVE sorted_by_start(_)
sorted_by_start(runs) ==
    IF runs = <<>> THEN <<>>
    ELSE insert_by_start(sorted_by_start(SubSeq(runs, 1, Len(runs) - 1)),
                         runs[Len(runs)])

\* sum(1 for r in runs if r['success']) / len(runs)
success_fraction(runs) == Frac(Len(SelectSeq(runs, is_success)), Len(runs))

\* ---- Python floats (IEEE 754 binary64) as far as the trend needs them ----
\* The magnitude of a float below 4 is a numeral of Width bits, most
\* significant first: two integer bits, then FracBits fraction bits. Every
\* float that occurs (a success fraction k/m, 0.1, their sum or difference)
\* is 0 or at least 2^-7, so its Precision significant bits fit the numeral.
Precision == 53
FracBits == 60
Width == FracBits + 2

\* The quotient bits of rem / m after the binary point, k of them
RECURSIVE long_division(_, _, _)
long_division(rem, m, k) ==
    IF k = 0 THEN <<>>
    ELSE <<(2 * rem) \div m>> \o long_division((2 * rem) % m, m, k - 1)

\* What long_division leaves over after k bits
RECURSIVE division_rest(_, _, _)
division_rest(rem, m, k) ==
    IF k = 0 \/ rem = 0 THEN rem ELSE division_rest((2 * rem) % m, m, k - 1)

\* x + y on numerals (no carry out of the top bit occurs)
RECURSIVE add_upto(_, _, _, _)
add_upto(x, y, i, carry) ==
    IF i = 0 THEN <<>>
    ELSE IF x[i] + y[i] + carry < 2
    THEN add_upto(x, y, i - 1, 0) \o <<x[i] + y[i] + carry>>
    ELSE add_upto(x, y, i - 1, 1) \o <<x[i] + y[i] + carry - 2>>

bits_add(x, y) == add_upto(x, y, Width, 0)

\* x - y on numerals, for x >= y
RECURSIVE sub_upto(_, _, _, _)
sub_upto(x, y, i, borrow) ==
    IF i = 0 THEN <<>>
    ELSE IF x[i] - y[i] - borrow < 0
    THEN sub_upto(x, y, i - 1, 1) \o <<x[i] - y[i] - borrow + 2>>
    ELSE sub_upto(x, y, i - 1, 0) \o <<x[i] - y[i] - borrow>>

bits_sub(x, y) == sub_upto(x, y, Width, 0)

\* x < y on numerals
bits_less(x, y) ==
    \E i \in 1..Width : x[i] < y[i] /\ \A j \in 1..(i - 1) : x[j] = y[j]

\* Rounding to nearest, ties to even, of the numeral x (plus something
\* below its last bit when `sticky`) to Precision significant bits.
round_to_nearest_even(x, sticky) ==
    IF \A i \in 1..Width : x[i] = 0 THEN x
    ELSE
      LET lead == CHOOSE i \in 1..Width :
                      x[i] = 1 /\ \A j \in 1..(i - 1) : x[j] = 0
          last_bit == lead + Precision - 1
      IN  IF last_bit >= Width THEN x
          ELSE
            LET kept == [i \in 1..Width |-> IF i <= last_bit THEN x[i] ELSE 0]
                ulp == [i \in 1..Width |-> IF i = last_bit THEN 1 ELSE 0]
                below == sticky \/ \E j \in (last_bit + 2)..Width : x[j] = 1
            IN  IF x[last_bit + 1] = 1 /\ (below \/ x[last_bit] = 1)
                THEN bits_add(kept, ulp) ELSE kept

\* a / m for ints 0 <= a <= m, m > 0: the correctly rounded quotient
float_div(a, m) ==
    [neg |-> FALSE,
     mag |-> round_to_nearest_even(
                 <<0, a \div m>> \o long_division(a % m, m, FracBits),
                 division_rest(a % m, m, FracBits) # 0)]

\* the literal 0.1
float_tenth == float_div(1, 10)

\* x + y for floats x, y >= 0
float_add(x, y) ==
    [neg |-> FALSE, mag |-> round_to_nearest_even(bits_add(x.mag, y.mag), FALSE)]

\* x - y for floats x, y >= 0
float_sub(x, y) ==
    IF bits_less(x.mag, y.mag)
    THEN [neg |-> TRUE,
          mag |-> round_to_nearest_even(bits_sub(y.mag, x.mag), FALSE)]
    ELSE [neg |-> FALSE,
          mag |-> round_to_nearest_even(bits_sub(x.mag, y.mag), FALSE)]

\* x < y for floats
float_less(x, y) ==
    IF x.neg /\ y.neg THEN bits_less(y.mag, x.mag)
    ELSE IF x.neg THEN \E i \in 1..Width : x.mag[i] = 1 \/ y.mag[i] = 1
    ELSE IF y.neg THEN FALSE
    ELSE bits_less(x.mag, y.mag)

\* sum(1 for r in runs if r['success']) / len(runs) as the float it is
success_float(runs) == float_div(Len(SelectSeq(runs, is_success)), Len(runs))

\* MetricsAnalyzer._calculate_improvement_trend(runs)
calculate_improvement_trend(runs) ==
    IF Len(runs) < 2 THEN "insufficient_data"
    ELSE
      LET sorted_runs == sorted_by_start(runs)
          midpoint == Len(sorted_runs) \div 2
          first_half_success ==
              success_float(SubSeq(sorted_runs, 1, midpoint))
          second_half_success ==
              success_float(SubSeq(sorted_runs, midpoint + 1,
                                   Len(sorted_runs)))
      IN  IF float_less(float_add(first_half_success, float_tenth),
                        second_half_success)
          THEN "improving"
          ELSE IF float_less(second_half_success,
                             float_sub(first_half_success, float_tenth))
          THEN "declining"
          ELSE "stable"

\* MetricsAnalyzer.get_component_trends(component_name)
get_component_trends(rf, component_name) ==
    IF ~exists(rf)
    THEN [op |-> "trends_for", outcome |-> "empty"]
    ELSE IF \E i \in 1..Len(load(rf)) : ~json_ok(load(rf)[i])
    THEN [op |-> "trends_for", outcome |-> "JSONDecodeError"]
    ELSE
      LET runs == SelectSeq(seq_map(json_loads, load(rf)),
                            LAMBDA r : r.component_name = component_name)
          timed == SelectSeq(runs, has_time_to_green)
      IN  IF runs = <<>>
          THEN [op |-> "trends_for", outcome |-> "empty"]
          ELSE IF timed = <<>>
          THEN [op |-> "trends_for", outcome |-> "ZeroDivisionError"]
          ELSE [op |-> "trends_for", outcome |-> "trends",
                total_attempts |-> Len(runs),
                success_rate |-> success_fraction(runs),
                avg_time_to_green |->
                    Frac(seq_sum(seq_map(get_time_to_green, timed)),
                         Len(timed)),
                total_rework_cycles |->
                    seq_sum(seq_map(get_rework_cycles, runs)),
                improvement_trend |-> calculate_improvement_trend(runs)]

\* compare_report()
compare_report ==
    /\ result' = generate_experiment_comparison(metrics_file)
    /\ UNCHANGED <<runs_file, metrics_file, run, pc, next_id>>

\* trends_for(subject)
trends_for(component_name) ==
    /\ result' = get_component_trends(runs_file, component_name)
    /\ UNCHANGED <<runs_file, metrics_file, run, pc, next_id>>

\* ------------------------------------------------------------ specification
\* Subjects asked of trends_for: the components, and one never run.
Subjects == Components \cup {"Pattern_Library"}

\* The log the first process finds: absent, empty, or holding a line that
\* is not JSON.
InitialLogs == {<<>>, dump(<<>>), dump(<<GarbageLine>>)}

InitAgg ==
    /\ now = 0
    /\ status_file = <<>>
    /\ results_file = <<>>
    /\ last = [op |-> "none", msg |-> "none"]
    /\ setbacks = 0
    /\ runs_file \in InitialLogs
    /\ metrics_file = <<>>
    /\ run = <<>>
    /\ pc = "idle"
    /\ next_id = 1
    /\ result = [op |-> "none", outcome |-> "none"]

TrackEnter ==
    /\ \E ty \in ExperimentTypes, c \in Components : track_enter(ty, c)
    /\ UNCHANGED tracker_vars

RecordTimeToGreen ==
    /\ \/ \E m \in TimesToGreen : record_time_to_green_pass(m)
       \/ record_time_to_green_fail
    /\ UNCHANGED tracker_vars

RecordReworkCycle == record_rework_cycle /\ UNCHANGED tracker_vars
TrackExitNormal == track_exit_normal /\ UNCHANGED tracker_vars
TrackExitException == track_exit_exception /\ UNCHANGED tracker_vars
Recompute == recompute /\ UNCHANGED tracker_vars
CompareReport == compare_report /\ UNCHANGED tracker_vars
TrendsFor == (\E c \in Subjects : trends_for(c)) /\ UNCHANGED tracker_vars

NextAgg ==
    \/ TrackEnter \/ RecordTimeToGreen \/ RecordReworkCycle
    \/ TrackExitNormal \/ TrackExitException
    \/ Recompute \/ CompareReport \/ TrendsFor

\* The collector, track_experiment and the analyzer over the two files.
SpecAgg == InitAgg /\ [][NextAgg]_vars

\* ---- the analyzer on a longer history ----
\* The most runs of one component the log holds.
MaxTrendRuns == 20

\* The record track_experiment appends for the k-th run: whether and when
\* its tests passed, its rework cycles, and whether its block finished
\* (success) or raised.
ended_run(k, experiment_type, time_to_green, rework_cycles, success) ==
    json_dumps([ExperimentRun(k, experiment_type, "File_Storage") EXCEPT
                    !.end_time = Some(k),
                    !.time_to_green = time_to_green,
                    !.rework_cycles = rework_cycles,
                    !.success = success,
                    !.issues_encountered =
                        [i \in 1..rework_cycles |-> "Rework"]
                            \o IF success THEN <<>> ELSE <<"Exception">>])

\* The log after n runs made one after the other, each with tests passing
\* after 5 minutes: of the earlier n \div 2 runs the first `a` succeeded,
\* of the later ones the first `b`.
trend_log(n, a, b) ==
    dump([k \in 1..n |->
            ended_run(k, "spec_only", Some(5), 0,
                      IF k <= n \div 2 THEN k <= a ELSE k - n \div 2 <= b)])

InitTrend ==
    /\ now = 0
    /\ status_file = <<>>
    /\ results_file = <<>>
    /\ last = [op |-> "none", msg |-> "none"]
    /\ setbacks = 0
    /\ \E n \in 0..MaxTrendRuns :
         \E a \in 0..(n \div 2), b \in 0..(n - n \div 2) :
            /\ runs_file = trend_log(n, a, b)
            /\ next_id = n + 1
    /\ metrics_file = <<>>
    /\ run = <<>>
    /\ pc = "idle"
    /\ result = [op |-> "none", outcome |-> "none"]

NextTrend == TrendsFor

\* trends_for on the logs of up to MaxTrendRuns runs.
SpecTrend == InitTrend /\ [][NextTrend]_vars

\* ---- the comparison report on every short history ----
\* Minutes the tests of a run may take to pass.
ReportTimes == {5, 7}

\* What one run leaves on record: its type, its time to green if the tests
\* passed, its rework cycles, and its success.
RunOutcomes ==
    [experiment_type : ExperimentTypes,
     time_to_green : {None} \cup {Some(m) : m \in ReportTimes},
     rework_cycles : 0..MaxRework,
     success : BOOLEAN]

\* The log after the runs `outcomes`, made one after the other
report_log(outcomes) ==
    dump([k \in 1..Len(outcomes) |->
            ended_run(k, outcomes[k].experiment_type,
                      outcomes[k].time_to_green,
                      outcomes[k].rework_cycles, outcomes[k].success)])

InitReport ==
    /\ now = 0
    /\ status_file = <<>>
    /\ results_file = <<>>
    /\ last = [op |-> "none", msg |-> "none"]
    /\ setbacks = 0
    /\ \E n \in 0..MaxRuns :
         \E outcomes \in [1..n -> RunOutcomes] :
            /\ runs_file = report_log(outcomes)
            /\ next_id = n + 1
    /\ metrics_file = <<>>
    /\ run = <<>>
    /\ pc = "idle"
    /\ result = [op |-> "none", outcome |-> "none"]

NextReport == Recompute \/ CompareReport

\* recompute and compare_report on the logs of up to MaxRuns runs.
SpecReport == InitReport /\ [][NextReport]_vars

\* ---- the quality gates within a run ----
RecordQualityGates ==
    /\ \E procs \in [1..Len(STANDARD_QUALITY_GATES) -> ProcessBehaviours] :
         record_quality_gates(procs)
    /\ UNCHANGED tracker_vars

NextGates == TrackEnter \/ RecordQualityGates

\* A run in which the quality gates are tested.
SpecGates == Init /\ [][NextGates]_vars

\* ===================================================================
\* Properties of the session tracker
\* ===================================================================
Live == exists(status_file)
LiveData == load(status_file)
Paused == Live /\ LiveData.status = "paused"
Result == load(results_file)

\* C1: start(name) on a live session (in_progress or paused) fails with
\* StateConflict and leaves the live state unchanged; with no live session
\* it creates a state with status in_progress, empty pause_history and
\* paused_time_minutes = 0.
C1_StartRefusesLiveSession ==
    [][Start =>
         IF Live
         THEN last'.msg = "state_conflict" /\ status_file' = status_file
         ELSE /\ exists(status_file')
              /\ load(status_file').status = "in_progress"
              /\ load(status_file').pause_history = <<>>
              /\ load(status_file').paused_time_minutes = 0]_vars

\* C2: in every live session state, pause_start is present if and only if
\* the status is paused.
C2_PauseStartIffPaused ==
    Live => (has_key(LiveData, "pause_start") <=> LiveData.status = "paused")

\* C2 witness: a session paused for the second time (pause, resume, pause).
C2_Witness ==
    /\ Paused
    /\ has_key(LiveData, "pause_start")
    /\ Len(LiveData.pause_history) = 1

\* C3: in every live state and in the finalized result record,
\* paused_time_minutes is the sum of duration_minutes over pause_history.
C3_PausedTimeIsSumOfHistory ==
    /\ Live =>
         LiveData.paused_time_minutes = sum_durations(LiveData.pause_history)
    /\ exists(results_file) =>
         Result.paused_time_minutes = sum_durations(Result.pause_history)

\* C3 witness: a result with two recorded pauses of non-zero duration.
C3_Witness ==
    /\ exists(results_file)
    /\ Len(Result.pause_history) = 2
    /\ Result.pause_history[1].duration_minutes > 0
    /\ Result.pause_history[2].duration_minutes > 0
    /\ Result.paused_time_minutes = 2

\* C4: on a clock that never goes backwards, the finalized record has
\* total_duration = end_time - start_time, active_duration =
\* total_duration - paused_time_minutes, and active_duration >= 0.
C4_ActiveDurationNonNegative ==
    exists(results_file) =>
        /\ Result.total_duration_minutes =
               round1(minutes_between(Result.start_time, Result.end_time))
        /\ Result.active_duration_minutes =
               Result.total_duration_minutes - Result.paused_time_minutes
        /\ Result.active_duration_minutes >= 0

\* C5: end on a paused session, whose implicit resume reads the clock at t,
\* writes a record with the paused_time_minutes and the pause_history that
\* resume at t leaves: the open paused interval is recorded, not lost.
C5_EndWhilePausedEqualsResumeThenEnd ==
    [][(End /\ Paused) =>
         LET r == load(results_file')
             n == Len(r.pause_history)
         IN  /\ n = Len(LiveData.pause_history) + 1
             /\ r.pause_history[n].pause_start = LiveData.pause_start
             /\ LET resumed == load(resume_file(status_file,
                                                r.pause_history[n].pause_end))
                 IN  /\ r.paused_time_minutes = resumed.paused_time_minutes
                     /\ r.pause_history = resumed.pause_history]_vars

\* C5 witness: a result written by end on a paused session: its last pause
\* ends after it began and the session was ended later still.
C5_Witness ==
    /\ last = [op |-> "end", msg |-> "ended"]
    /\ Len(Result.pause_history) = 2
    /\ Result.pause_history[2].pause_end > Result.pause_history[2].pause_start
    /\ Result.end_time > Result.pause_history[2].pause_end
    /\ Result.pause_history[2].duration_minutes > 0

\* C6: within one session paused_time_minutes never decreases and is never
\* negative, also when the clock moves backwards between pause and resume.
C6_PausedTimeMonotone ==
    /\ [](Live => LiveData.paused_time_minutes >= 0)
    /\ [](exists(results_file) => Result.paused_time_minutes >= 0)
    /\ [][(Live /\ exists(status_file') /\ ~Start) =>
            load(status_file').paused_time_minutes
                >= LiveData.paused_time_minutes]_vars

\* C7: pause() with no live session fails with NoActiveSession and creates
\* no live state; pause() on a paused session leaves the whole live state
\* unchanged.
C7_PauseNoOp ==
    [][Pause =>
         /\ ~Live => (last'.msg = "no_active_experiment"
                        /\ ~exists(status_file'))
         /\ Paused => (last'.msg = "already_paused"
                        /\ status_file' = status_file)
         /\ results_file' = results_file]_vars

\* C7 witness: pause was just refused on a paused session with a history.
C7_Witness ==
    /\ last = [op |-> "pause", msg |-> "already_paused"]
    /\ Paused
    /\ Len(LiveData.pause_history) = 1
    /\ LiveData.paused_time_minutes > 0

\* The status of the live session, "none" when there is no state file.
LiveStatus(file) == IF exists(file) THEN load(file).status ELSE "none"

\* C8: the live state file only ever holds in_progress or paused; the only
\* transitions of the live status are none->in_progress (start),
\* in_progress->paused (pause), paused->in_progress (resume) and
\* {in_progress, paused}->none (end); completed/failed appear only in the
\* result record.
C8_StateMachine ==
    /\ [](LiveStatus(status_file) \in {"none", "in_progress", "paused"})
    /\ [](exists(results_file) => Result.status \in {"completed", "failed"})
    /\ [][LET a == LiveStatus(status_file)
              b == LiveStatus(status_file')
          IN  \/ a = "none" /\ b = "in_progress" /\ Start
              \/ a = "in_progress" /\ b = "paused" /\ Pause
              \/ a = "paused" /\ b = "in_progress" /\ Resume
              \/ a \in {"in_progress", "paused"} /\ b = "none" /\ End
              \/ a = b]_vars

\* end(success) for one value of success, whatever the clock read
EndWith(s) ==
    /\ \E t1 \in 0..MaxTime : end_experiment(s, t1, now')
    /\ UNCHANGED <<setbacks, agg_vars>>

\* What end on a live session does to the two files.
EndEffect ==
    /\ ~exists(status_file')
    /\ exists(results_file')
    /\ load(results_file').experiment = LiveData.experiment
    /\ load(results_file').start_time = LiveData.start_time
    /\ load(results_file').end_time = now'
    /\ load(results_file').status \in {"completed", "failed"}

\* C9: the live state file is removed in exactly the steps that write a
\* result record: every end on a live session writes the record of that
\* session (completed iff success, else failed) and removes the live state;
\* no other step removes the live state or changes the result file.
\* (A step that is an end prints end's message, which is tested first.)
C9_ResultWrittenIffLiveRemoved ==
    [][/\ (Live /\ ~exists(status_file')) =>
             /\ EndEffect
             /\ \/ load(results_file').status = "completed" /\ EndWith(TRUE)
                \/ load(results_file').status = "failed" /\ EndWith(FALSE)
       /\ (results_file' # results_file) => (Live /\ ~exists(status_file'))
       /\ (Live /\ ~EndEffect /\ last'.op = "end") => ~End]_vars

\* C9 witness: the result of an earlier session is still there while a later
\* session has been started, paused and resumed.
C9_Witness ==
    /\ exists(results_file)
    /\ Result.status = "failed"
    /\ Live
    /\ LiveData.start_time > Result.end_time
    /\ Len(LiveData.pause_history) = 1

\* ===================================================================
\* Properties of the run log aggregator
\* ===================================================================
\* a is b with nothing or something appended at the end
IsPrefix(a, b) == Len(a) <= Len(b) /\ SubSeq(b, 1, Len(a)) = a

\* The records of run `id` in a log
records_of(file, id) ==
    SelectSeq(file_lines(file),
              LAMBDA line : json_ok(line) /\ json_loads(line).id = id)

\* C10: the run log is append-only (every operation leaves the earlier log
\* as a prefix of the later one), and each completed run, whether
\* track_experiment ends normally or by an exception, appends exactly one
\* record.
C10_AppendOnlyOneRecordPerRun ==
    /\ [][IsPrefix(file_lines(runs_file), file_lines(runs_file'))]_vars
    /\ [][(pc = "body" /\ pc' = "idle") =>
            /\ Len(file_lines(runs_file')) = Len(file_lines(runs_file)) + 1
            /\ Len(records_of(runs_file', run[1].id)) = 1]_vars

\* C11: recompute() is idempotent: in the state a recompute() leaves, for
\* every log content, a second recompute() with no append in between would
\* leave the snapshot store as it is.
C11_RecomputeIdempotent ==
    [][Recompute =>
         update_aggregated_metrics(runs_file', metrics_file').metrics
             = metrics_file']_vars

\* C11 witness: recompute() has just rebuilt the snapshot of a log with two
\* records of two categories.
C11_Witness ==
    /\ result = [op |-> "recompute", outcome |-> "ok"]
    /\ Len(file_lines(runs_file)) = 2
    /\ exists(metrics_file)
    /\ Len(load(metrics_file)) = 2

\* The mean of an Optional field over the records that define it (0 is a
\* defined value); None when no record defines it. `scale` is the unit
\* the field is counted in.
mean_of_defined(recs, has(_), get(_), scale) ==
    LET defined == SelectSeq(recs, has)
    IN  IF defined = <<>> THEN None
        ELSE Some(Frac(seq_sum(seq_map(get, defined)), scale * Len(defined)))

\* C12: after recompute(), for every category, avg_time_to_green is the mean
\* of time_to_green over all records of the category that define one
\* (successful or not, 0 included), undefined exactly when none does; and
\* avg_quality_score likewise over final_quality_score.
C12_AveragesOverDefinedValues ==
    [][(Recompute /\ exists(runs_file) /\ result'.outcome = "ok") =>
         LET runs == seq_map(json_loads, load(runs_file))
             snap == load(metrics_file')
         IN  \A i \in 1..Len(snap) :
               LET recs == SelectSeq(runs, LAMBDA r :
                                       r.experiment_type = snap[i].key)
               IN  /\ snap[i].data.avg_time_to_green =
                        mean_of_defined(
                            recs, LAMBDA r : r.time_to_green # None,
                            get_time_to_green, 1)
                   /\ snap[i].data.avg_quality_score =
                        mean_of_defined(
                            recs, LAMBDA r : r.final_quality_score # None,
                            get_quality_score, 5)]_vars

\* C13: recompute() on a missing log and on an empty log completes without
\* error and leaves the snapshot store holding an empty snapshot (no
\* categories), whatever the store held before.
C13_MissingOrEmptyLogGivesEmptySnapshot ==
    [][(Recompute /\ file_lines(runs_file) = <<>>) =>
         /\ result'.outcome = "ok"
         /\ exists(metrics_file')
         /\ load(metrics_file') = <<>>]_vars

\* C14: recompute() on a log that holds malformed lines does not abort: it
\* skips them and writes the snapshot of the well-formed records, the one
\* it writes for the same log without the malformed lines.
C14_MalformedLinesSkipped ==
    [][(Recompute /\ exists(runs_file)) =>
         LET well_formed == SelectSeq(load(runs_file), json_ok)
         IN  /\ result'.outcome = "ok"
             /\ metrics_file' = dump(aggregate(seq_map(json_loads,
                                                       well_formed)))
             /\ metrics_file' =
                    update_aggregated_metrics(dump(well_formed),
                                              metrics_file).metrics]_vars

\* C15: compare_report() fails with NoData both when the snapshot store is
\* absent and when it holds an empty snapshot (no categories); in neither
\* case does it raise an error or render a table.
C15_CompareReportNoData ==
    [][(CompareReport /\ file_lines(metrics_file) = <<>>) =>
         result'.outcome = "no_data"]_vars

\* C16: trends_for(subject) never fails with a division by zero: on a
\* readable log, with no matching record it returns the empty result, and
\* with matching records of which none defines time_to_green it returns a
\* result whose mean time-to-green is undefined.
C16_TrendsNeverDivideByZero ==
    [][TrendsFor =>
         /\ result'.outcome # "ZeroDivisionError"
         /\ \A c \in Subjects :
              (/\ trends_for(c)
               /\ \A i \in 1..Len(file_lines(runs_file)) :
                      json_ok(file_lines(runs_file)[i])) =>
                 LET matching ==
                       SelectSeq(seq_map(json_loads, file_lines(runs_file)),
                                 LAMBDA r : r.component_name = c)
                 IN  IF matching = <<>>
                     THEN result'.outcome = "empty"
                     ELSE /\ result'.outcome = "trends"
                          /\ (\A i \in 1..Len(matching) :
                                 matching[i].time_to_green = None)
                                => result'.avg_time_to_green = None]_vars

\* C17: the improvement trend of a subject's records is insufficient_data
\* with fewer than 2 records; otherwise, the records taken in start-time
\* order with the first floor(n/2) as first half and the rest as second
\* half, it is improving iff the second half's success rate exceeds the
\* first half's by more than 0.1, declining iff it is lower by more than
\* 0.1, and stable otherwise (a difference of exactly 0.1 is stable).
C17_ImprovementTrend ==
    [][\A c \in Subjects :
         (trends_for(c) /\ result'.outcome = "trends") =>
           LET runs == SelectSeq(seq_map(json_loads, load(runs_file)),
                                 LAMBDA r : r.component_name = c)
               n == Len(runs)
               m == n \div 2
               earlier(i) == Cardinality({j \in 1..n :
                                 runs[j].start_time < runs[i].start_time})
               s1 == Cardinality({i \in 1..n :
                                    earlier(i) < m /\ runs[i].success})
               s2 == Cardinality({i \in 1..n :
                                    earlier(i) >= m /\ runs[i].success})
               \* 10 m (n - m) (second rate - first rate)
               diff == 10 * (s2 * m - s1 * (n - m))
           IN  result'.improvement_trend =
                 IF n < 2 THEN "insufficient_data"
                 ELSE IF diff > m * (n - m) THEN "improving"
                 ELSE IF diff < 0 - m * (n - m) THEN "declining"
                 ELSE "stable"]_vars

\* C18: after every end_experiment that completes (its recompute read the
\* whole log), the snapshot store is the aggregate of the full log: its
\* categories are exactly those occurring in the log, each once, and for
\* each one total_runs counts its records, success_rate is successes /
\* total_runs and avg_rework_cycles is the mean of rework_cycles over all
\* its records; nothing is carried over from the earlier snapshot.
C18_SnapshotIsAggregateOfLog ==
    [][(/\ pc = "body" /\ pc' = "idle"
        /\ \A i \in 1..Len(load(runs_file')) : json_ok(load(runs_file')[i])) =>
         LET runs == seq_map(json_loads, load(runs_file'))
             snap == load(metrics_file')
             of_type(t) == {j \in 1..Len(runs) : runs[j].experiment_type = t}
             RECURSIVE rework_of(_)
             rework_of(js) ==
                 IF js = {} THEN 0
                 ELSE LET j == CHOOSE j \in js : TRUE
                      IN  runs[j].rework_cycles + rework_of(js \ {j})
         IN  /\ {snap[i].key : i \in 1..Len(snap)}
                    = {runs[j].experiment_type : j \in 1..Len(runs)}
             /\ \A i, k \in 1..Len(snap) : snap[i].key = snap[k].key => i = k
             /\ \A i \in 1..Len(snap) :
                  LET js == of_type(snap[i].key)
                      total == Cardinality(js)
                  IN  /\ snap[i].data.total_runs = total
                      /\ snap[i].data.success_rate =
                            Frac(Cardinality({j \in js : runs[j].success}),
                                 total)
                      /\ snap[i].data.avg_rework_cycles =
                            Frac(rework_of(js), total)]_vars

\* C18 witness: track_experiment has just ended a second run of a category
\* whose first run failed; the category has a rework cycle on record.
C18_Witness ==
    /\ result = [op |-> "track_experiment", outcome |-> "ok"]
    /\ Len(file_lines(runs_file)) = 2
    /\ exists(metrics_file)
    /\ Len(load(metrics_file)) = 1
    /\ load(metrics_file)[1].data.total_runs = 2
    /\ load(metrics_file)[1].data.success_rate = Frac(1, 2)
    /\ load(metrics_file)[1].data.avg_rework_cycles = Frac(1, 2)

\* Category i of snapshot `snap` is the first, in iteration order, among the
\* categories `among`, whose value is extreme: none of them is better, and
\* every earlier one is worse.
first_extreme(among, i, better(_, _)) ==
    /\ i \in among
    /\ \A j \in among : ~better(j, i)
    /\ \A j \in among : j < i => better(i, j)

\* C19: in compare_report(), each insight names the first category in
\* snapshot iteration order that attains the extreme value: the highest
\* success_rate, the lowest avg_rework_cycles, and the lowest
\* avg_time_to_green among the categories that have one (no insight when
\* none has); also when categories have identical entries or tie.
C19_InsightsNameFirstExtreme ==
    [][(CompareReport /\ result'.outcome = "report") =>
         LET snap == load(metrics_file)
             all == 1..Len(snap)
             timed == {i \in all : snap[i].data.avg_time_to_green # None}
             rate(i) == snap[i].data.success_rate
             rework(i) == snap[i].data.avg_rework_cycles
             time(i) == snap[i].data.avg_time_to_green[1]
         IN  /\ \E i \in all :
                  /\ result'.best_experiment = snap[i].key
                  /\ first_extreme(all, i,
                        LAMBDA a, b : frac_less(rate(b), rate(a)))
             /\ \E i \in all :
                  /\ result'.lowest_rework_exp = snap[i].key
                  /\ first_extreme(all, i,
                        LAMBDA a, b : frac_less(rework(a), rework(b)))
             /\ IF timed = {} THEN result'.fastest_experiment = None
                ELSE \E i \in timed :
                       /\ result'.fastest_experiment = Some(snap[i].key)
                       /\ first_extreme(timed, i,
                             LAMBDA a, b : frac_less(time(a), time(b)))]_vars

\* C19 witness: a report on two categories that tie on the success rate,
\* the first named as the best, while the second was faster to green.
C19_Witness ==
    /\ result.op = "compare_report" /\ result.outcome = "report"
    /\ Len(load(metrics_file)) = 2
    /\ load(metrics_file)[1].data.success_rate
         = load(metrics_file)[2].data.success_rate
    /\ result.best_experiment = load(metrics_file)[1].key
    /\ result.fastest_experiment = Some(load(metrics_file)[2].key)
    /\ load(metrics_file)[1].data.avg_time_to_green = Some(Frac(7, 1))

\* C20: record_quality_gates runs every gate of the standard list, in
\* order, whatever the earlier gates did: a gate passes iff its process
\* exits with status 0 within its timeout; a timeout or an invocation error
\* is a failed gate and the remaining gates still run; the result has one
\* entry per gate; and the run's spec_drift_count is the number of failed
\* gates. (The steps of record_quality_gates are those within a run that
\* leave its result.)
C20_EveryGateRunsAndIsRecorded ==
    [][(pc = "body" /\ result'.op = "record_quality_gates") =>
         LET gates == STANDARD_QUALITY_GATES
             ran == result'.invoked
             res == result'.gate_results
         IN  /\ result'.outcome = "ok"
             /\ Len(ran) = Len(gates)
             /\ Len(res) = Len(gates)
             /\ \A i \in 1..Len(gates) :
                  /\ ran[i].command = gates[i].command
                  /\ res[i].key = gates[i].name
                  /\ res[i].passed <=>
                        /\ ran[i].process.starts
                        /\ ran[i].process.seconds <= gates[i].timeout_seconds
                        /\ ran[i].process.returncode = 0
             /\ run'[1].spec_drift_count =
                    Cardinality({i \in 1..Len(res) : ~res[i].passed})]_vars

\* C20 witness: the first gate timed out, the second could not be started,
\* the third failed, and the last two were still run and passed.
C20_Witness ==
    /\ result.op = "record_quality_gates"
    /\ Len(result.invoked) = 5
    /\ result.invoked[1].process.starts
    /\ result.invoked[1].process.seconds > result.invoked[1].timeout
    /\ ~result.invoked[2].process.starts
    /\ result.invoked[3].process.returncode = 1
    /\ ~result.gate_results[1].passed
    /\ ~result.gate_results[2].passed
    /\ ~result.gate_results[3].passed
    /\ result.gate_results[4].passed
    /\ result.gate_results[5].passed
    /\ run[1].spec_drift_count = 3
====
